---- MODULE Spec2Model ----
(***************************************************************************)
(* Model of the SAML service-provider middleware (package saml,            *)
(* middleware.go): the handlers ServeHTTP, RequireAccountMiddleware,       *)
(* DefaultAuthorizeFunc, DefaultIsAuthorized and RequireAttribute, the     *)
(* two signed tokens they issue and verify, and the X-Saml-* request       *)
(* header namespace.                                                       *)
(*                                                                         *)
(* Strings the code inspects character by character (header names, claim   *)
(* names) are tuples of one-character strings.  A signed token string is   *)
(* a record of its three segments; the HMAC is symbolic: the signature of  *)
(* (alg, claims) under key k is the record [alg, key, claims], so that a   *)
(* signature verifies exactly when it was computed over the same bytes     *)
(* with the same key and algorithm.                                        *)
(***************************************************************************)
EXTENDS Integers, Sequences, FiniteSets, TLC

(***************************************************************************)
(* Bounds of the model.                                                    *)
(***************************************************************************)
MaxLate == 1         \* the clock is sampled up to MaxLate seconds past one session lifetime

(***************************************************************************)
(* Program constants.                                                      *)
(***************************************************************************)
cookieMaxAge == 3600                       \* time.Hour, in seconds
cookieName == "token"

(***************************************************************************)
(* Characters and header-name canonicalisation                             *)
(* (net/http CanonicalHeaderKey, used by Header.Set and RequireAttribute). *)
(***************************************************************************)
LowerLetters == <<"a","b","c","d","e","f","g","h","i","j","k","l","m",
                  "n","o","p","q","r","s","t","u","v","w","x","y","z">>
UpperLetters == <<"A","B","C","D","E","F","G","H","I","J","K","L","M",
                  "N","O","P","Q","R","S","T","U","V","W","X","Y","Z">>

IsLower(c) == \E i \in 1..26 : LowerLetters[i] = c
IsUpper(c) == \E i \in 1..26 : UpperLetters[i] = c
ToUpper(c) == IF IsLower(c) THEN UpperLetters[CHOOSE i \in 1..26 : LowerLetters[i] = c] ELSE c
ToLower(c) == IF IsUpper(c) THEN LowerLetters[CHOOSE i \in 1..26 : UpperLetters[i] = c] ELSE c

\* A byte allowed in a header field name; a name with any other byte is
\* returned unchanged by the canonicalisation.
validHeaderFieldByte(c) == IsLower(c) \/ IsUpper(c) \/ c = "-"

CanonicalHeaderKey(s) ==
    IF \E i \in 1..Len(s) : ~validHeaderFieldByte(s[i])
    THEN s
    ELSE [i \in 1..Len(s) |->
            IF i = 1 \/ s[i-1] = "-" THEN ToUpper(s[i]) ELSE ToLower(s[i])]

\* strings.HasPrefix
HasPrefix(s, p) == Len(s) >= Len(p) /\ SubSeq(s, 1, Len(p)) = p

XSaml == <<"X","-","S","a","m","l">>
\* fmt.Sprintf("X-Saml-%s", name)
SamlHeaderName(name) == XSaml \o <<"-">> \o name

(***************************************************************************)
(* Claim values are dynamically typed (interface{}): a string, the int64   *)
(* the issuer stores for exp, or the float64 a JSON decoder yields for a   *)
(* number.                                                                 *)
(***************************************************************************)
StringValue(s) == [type |-> "string", s |-> s, n |-> 0]
Int64Value(n) == [type |-> "int64", s |-> "", n |-> n]
Float64Value(n) == [type |-> "float64", s |-> "", n |-> n]

\* A claim map (map[string]interface{}) is a set of entries with unique names.
Entry(name, value) == [name |-> name, value |-> value]
Has(claims, name) == \E e \in claims : e.name = name
Get(claims, name) == (CHOOSE e \in claims : e.name = name).value
\* claims[name] = value
Put(claims, name, value) == {e \in claims : e.name # name} \cup {Entry(name, value)}

\* The claims as they come back from the JSON segment of a token string:
\* every number is a float64.
JSONDecode(claims) ==
    {Entry(e.name, IF e.value.type = "string" THEN e.value ELSE Float64Value(e.value.n)) :
        e \in claims}

nUid == <<"u","i","d">>
nUID == <<"U","i","d">>
nUri == <<"u","r","i">>
nExp == <<"e","x","p">>

(***************************************************************************)
(* Keys.  Secret stands for secretBlock.Bytes, the bytes of the PEM block  *)
(* of ServiceProvider.Key; OtherKey is any other key.                      *)
(***************************************************************************)
Secret == "sp-key"
OtherKey == "other-key"

(***************************************************************************)
(* Signed tokens (jwt-go).                                                 *)
(***************************************************************************)
HMACMethods == {"HS256", "HS384", "HS512"}

\* The HMAC of the first two segments under key.
HMAC(alg, key, claims) == [alg |-> alg, key |-> key, claims |-> claims]
NoSignature == [alg |-> "", key |-> "", claims |-> {}]

\* token.SignedString(key) of jwt.New(method) with the given claims: the
\* claims are serialised as JSON.
SignedString(alg, claims, key) ==
    [segments |-> 3, alg |-> alg, claims |-> JSONDecode(claims),
     sig |-> HMAC(alg, key, JSONDecode(claims))]

\* The empty string, which is no token: it has no three dot-separated
\* segments.
EmptyString == [segments |-> 0, alg |-> "", claims |-> {}, sig |-> NoSignature]

\* token.Method.Verify for the key the key function returns (a []byte):
\* the HMAC methods recompute the MAC with the algorithm the token names;
\* "none" refuses a []byte key and the RSA methods cannot use it as a key.
MethodVerify(tok, key) ==
    /\ tok.alg \in HMACMethods
    /\ tok.sig = HMAC(tok.alg, key, tok.claims)

\* The exp check of jwt.Parse: only a numeric exp is looked at.
Expired(tok, now) ==
    /\ Has(tok.claims, nExp)
    /\ Get(tok.claims, nExp).type = "float64"
    /\ now > Get(tok.claims, nExp).n

\* jwt.Parse(tokenString, keyFunc) with a key function that returns key
\* whatever the token's header says: err == nil && token.Valid.
ParseValid(tok, key, now) ==
    /\ tok.segments = 3
    /\ tok.alg \in HMACMethods \cup {"none", "RS256"}
    /\ ~Expired(tok, now)
    /\ MethodVerify(tok, key)

(***************************************************************************)
(* Requests.  A request carries its URL, the cookie named cookieName (if   *)
(* any), its headers (map[string][]string, keys canonical as net/http      *)
(* stores them on receipt) and, for the callback, the parsed form.         *)
(***************************************************************************)
MetadataPath == "/saml/metadata"
AcsPath == "/saml/acs"

URL(path, query) == [Path |-> path, RawQuery |-> query]
\* r.URL.String() of a server request: the path, and "?" and the query if any.
URLString(u) == IF u.RawQuery = "" THEN u.Path ELSE u.Path \o "?" \o u.RawQuery

\* A rooted path is written as its elements, each after a "/": "/a//b" is
\* <<"a", "", "b">>, "/a/" is <<"a", "">> and "/" is <<"">>.
RECURSIVE JoinPath(_)
JoinPath(elems) ==
    IF Len(elems) = 0 THEN "" ELSE "/" \o Head(elems) \o JoinPath(Tail(elems))

\* The paths and queries of the URIs that occur.
PathElements ==
    { <<"">>, <<"a">>, <<"a", "b">>, <<"a", "", "b">>, <<"saml", "acs">> }
Queries == {"", "x=1"}
\* strings.Split(path, "/") and url.Parse(uri), as the inverses of JoinPath
\* and URLString on the URIs that occur.
SplitPath(path) == CHOOSE elems \in PathElements : JoinPath(elems) = path
ParseURI(uri) ==
    CHOOSE u \in {URL(JoinPath(elems), q) : elems \in PathElements, q \in Queries} :
        URLString(u) = uri

\* path.Clean of a rooted path: empty and "." elements are dropped, ".."
\* drops the element before it, and what is left of nothing is "/".
RECURSIVE CleanElements(_, _)
CleanElements(out, elems) ==
    IF Len(elems) = 0 THEN out
    ELSE LET e == Head(elems)
         IN  CleanElements(
                 IF e = "" \/ e = "." THEN out
                 ELSE IF e = ".."
                 THEN (IF Len(out) = 0 THEN out ELSE SubSeq(out, 1, Len(out) - 1))
                 ELSE Append(out, e),
                 Tail(elems))
PathClean(path) ==
    LET out == CleanElements(<<>>, SplitPath(path))
    IN  IF Len(out) = 0 THEN "/" ELSE JoinPath(out)
\* strings.HasSuffix(path, "/")
HasSlashSuffix(path) == LET elems == SplitPath(path) IN elems[Len(elems)] = ""

\* Mutant: the query is not put back after the path was cleaned.
RedirectLocationWithoutQuery(uri) ==
    LET u == ParseURI(uri)
        cleaned == PathClean(u.Path)
    IN  IF HasSlashSuffix(u.Path) /\ ~HasSlashSuffix(cleaned) THEN cleaned \o "/" ELSE cleaned

\* The Location header http.Redirect writes for a URI with neither scheme
\* nor host that starts with "/": the path is cleaned, a trailing slash and
\* the query are kept.
RedirectLocation(uri) ==
    LET u == ParseURI(uri)
        cleaned == PathClean(u.Path)
        path == IF HasSlashSuffix(u.Path) /\ ~HasSlashSuffix(cleaned)
                THEN cleaned \o "/" ELSE cleaned
    IN  IF u.RawQuery = "" THEN path ELSE path \o "?" \o u.RawQuery

\* A header map is a set of [name, values] with unique names.
HeaderEntry(name, values) == [name |-> name, values |-> values]
\* r.Header.Set(key, value)
HeaderSet(h, key, value) ==
    {e \in h : e.name # CanonicalHeaderKey(key)}
        \cup {HeaderEntry(CanonicalHeaderKey(key), <<value>>)}

Absent == [present |-> FALSE, value |-> EmptyString]
Present(v) == [present |-> TRUE, value |-> v]
\* r.Form.Get(key): the first value, "" when the field is absent.
FormGet(field) == IF field.present THEN field.value ELSE EmptyString

(***************************************************************************)
(* Responses.                                                              *)
(***************************************************************************)
NoCookie == [set |-> FALSE, name |-> "", value |-> EmptyString, maxAge |-> 0,
             httpOnly |-> FALSE, path |-> ""]
NoLocation == [to |-> "", relayState |-> EmptyString]

\* What a handler did: status 0 stands for "nothing written".
Response(status, location, cookie, handler, panic) ==
    [status |-> status, location |-> location, cookie |-> cookie,
     handler |-> handler, panic |-> panic]

StatusOK == 200
StatusFound == 302
StatusForbidden == 403
StatusNotFound == 404
StatusInternalServerError == 500

\* http.Error(w, text, code)
HttpError(code) == Response(code, NoLocation, NoCookie, FALSE, FALSE)
\* panic(...)
Panic == Response(0, NoLocation, NoCookie, FALSE, TRUE)
\* handler.ServeHTTP(w, r) of the wrapped handler
Handler == Response(0, NoLocation, NoCookie, TRUE, FALSE)

(***************************************************************************)
(* Inputs of the model.                                                    *)
(***************************************************************************)
\* The clock readings sampled: the start, and the instants around the
\* expiry of a session issued at the start.
Times == {0} \cup {cookieMaxAge + d : d \in 0..MaxLate}

GuardedURLs == {URL("/a//b", ""), URL("/a", "x=1"), URL(AcsPath, "")}
ServedPaths == {MetadataPath, AcsPath, "/a"}

nAccept == <<"A","c","c","e","p","t">>
\* The headers of an ordinary request, and of one that injects a header of
\* the trusted namespace.
PlainHeader == {HeaderEntry(nAccept, <<"x">>)}
SpoofedHeader == PlainHeader \cup {HeaderEntry(SamlHeaderName(nUID), <<"a">>)}
InboundHeaders == {PlainHeader, SpoofedHeader}

\* type AssertionAttribute struct { FriendlyName, Name, Value string }
Attr(friendlyName, value) == [FriendlyName |-> friendlyName, Value |-> value]
\* The attribute lists the verifier may return.
AttributeLists ==
    { <<Attr(nUid, "a")>>,
      <<Attr(nUid, "a"), Attr(nUID, "b")>>,
      <<Attr(nUid, "a"), Attr(nUid, "b")>>,
      <<Attr(nExp, "never"), Attr(nUid, "a")>> }

\* The SAMLResponse of a callback request: the verifier's ParseResponse
\* reports an error for an invalid one and returns the attributes of a
\* valid one.
InvalidAssertion == [valid |-> FALSE, attributes |-> <<>>]
ValidAssertion(attrs) == [valid |-> TRUE, attributes |-> attrs]
Assertions == {InvalidAssertion} \cup {ValidAssertion(a) : a \in AttributeLists}
NoAssertion == InvalidAssertion

\* Token strings anyone can write down without the secret.
ForgedClaims == {Entry(nUid, StringValue("a"))}
ForgedToken == SignedString("HS256", ForgedClaims, OtherKey)
NoneToken == [segments |-> 3, alg |-> "none", claims |-> ForgedClaims, sig |-> NoSignature]
\* A token string computed with the secret by something other than this
\* middleware, with another algorithm of the HMAC family.
HS384Token == SignedString("HS384", ForgedClaims, Secret)
SecretMadeTokens == {HS384Token}
\* A token whose exp was pushed into the future, its signature kept.
Tampered(tok) ==
    [tok EXCEPT !.claims = Put(tok.claims, nExp, Float64Value(2 * (cookieMaxAge + MaxLate)))]

(***************************************************************************)
(* State.                                                                  *)
(***************************************************************************)
VARIABLES
    now,            \* the clock (timeNow, jwt.TimeFunc), in seconds
    AuthorizeFunc,  \* m.AuthorizeFunc: "nil" or "custom"
    cookieJar,      \* the client's cookie named cookieName, as the last Set-Cookie left it
    relayStates,    \* the relay-state tokens RequireAccountMiddleware has sent in redirects
    last            \* the request handled last, its inputs and what it got

vars == <<now, AuthorizeFunc, cookieJar, relayStates, last>>

\* The session tokens the client holds.
sessions == IF cookieJar.present THEN {cookieJar.value} ELSE {}
\* The token strings a client may send, as a cookie or as RelayState: those
\* it received from the middleware, and those made elsewhere.
ReceivedTokens == sessions \cup relayStates
ClientTokens ==
    ReceivedTokens \cup {ForgedToken, NoneToken} \cup SecretMadeTokens
        \cup {Tampered(t) : t \in sessions}

\* The record of one handled request.
Handled(op, url, cookie, header, form, assertion, t, authorized, headerOut, makeRedirect, authorize, attrs, res) ==
    [op |-> op, url |-> url, cookie |-> cookie, header |-> header, form |-> form,
     assertion |-> assertion, now |-> t, authorized |-> authorized,
     headerOut |-> headerOut, makeRedirect |-> makeRedirect,
     authorize |-> authorize, attributes |-> attrs,
     policy |-> Attr(<<>>, ""), res |-> res]

NoRequest ==
    Handled("none", URL("", ""), Absent, {}, Absent, NoAssertion, 0, "n/a", {},
            "not called", "none", <<>>, Response(0, NoLocation, NoCookie, FALSE, FALSE))

(***************************************************************************)
(* DefaultIsAuthorized                                                     *)
(***************************************************************************)
\* The orders in which a range over a map may visit its entries.
Orders(entries) ==
    {o \in [1..Cardinality(entries) -> entries] :
        \A i, j \in 1..Cardinality(entries) : i # j => o[i] # o[j]}

\* for claimName, claimValue := range token.Claims { ... r.Header.Set ... }
RECURSIVE SetClaimHeaders(_, _)
SetClaimHeaders(h, order) ==
    IF Len(order) = 0 THEN h
    ELSE LET e == order[1]
         IN  SetClaimHeaders(
                 IF e.value.type = "string"
                 THEN HeaderSet(h, SamlHeaderName(e.name), e.value.s)
                 ELSE h,
                 SubSeq(order, 2, Len(order)))

\* for headerName := range r.Header { if strings.HasPrefix(headerName, "X-Saml") ... }
HasSamlHeader(header) == \E e \in header : HasPrefix(e.name, XSaml)

\* Mutant: the key is taken from what the token says about itself.
DefaultIsAuthorizedKeyFromToken(cookie, header, t) ==
    IF ~cookie.present
    THEN {[result |-> "false", header |-> header]}
    ELSE IF ~ParseValid(cookie.value, cookie.value.sig.key, t)
    THEN {[result |-> "false", header |-> header]}
    ELSE IF HasSamlHeader(header)
    THEN {[result |-> "panic", header |-> header]}
    ELSE {[result |-> "true", header |-> SetClaimHeaders(header, order)] :
            order \in Orders(cookie.value.claims)}

\* Mutant: the scan for X-Saml headers runs after the token's headers are set.
DefaultIsAuthorizedScanAfterSet(cookie, header, t) ==
    IF ~cookie.present
    THEN {[result |-> "false", header |-> header]}
    ELSE IF ~ParseValid(cookie.value, Secret, t)
    THEN {[result |-> "false", header |-> header]}
    ELSE {[result |-> IF HasSamlHeader(SetClaimHeaders(header, order))
                      THEN "panic" ELSE "true",
           header |-> SetClaimHeaders(header, order)] :
            order \in Orders(cookie.value.claims)}

\* The possible outcomes: the result is "true", "false" or "panic", with
\* the request's headers as the function leaves them.  The order of the
\* range over token.Claims is not determined.
DefaultIsAuthorized(cookie, header, t) ==
    IF ~cookie.present
    THEN {[result |-> "false", header |-> header]}
    ELSE IF ~ParseValid(cookie.value, Secret, t)
    THEN {[result |-> "false", header |-> header]}
    ELSE IF HasSamlHeader(header)
    THEN {[result |-> "panic", header |-> header]}
    ELSE {[result |-> "true", header |-> SetClaimHeaders(header, order)] :
            order \in Orders(cookie.value.claims)}

(***************************************************************************)
(* RequireAccountMiddleware, for a middleware whose IsAuthorizedFunc is    *)
(* nil, so that isAuthorized is DefaultIsAuthorized.                       *)
(***************************************************************************)
IdPURL == "https://idp.example.com/sso"
\* The URL MakeRedirectAuthenticationRequest(relayState) returns.
RedirectAuthenticationRequest(relayState) == [to |-> IdPURL, relayState |-> relayState]

\* Mutant: the query is dropped from the uri claim.
RelayStateClaimsPathOnly(url) == {Entry(nUri, StringValue(url.Path))}

\* relayState.Claims["uri"] = r.URL.String()
RelayStateClaims(url) == {Entry(nUri, StringValue(URLString(url)))}

\* http.Redirect(w, r, location, http.StatusFound), with the Location header
\* as given: the identity provider's URL is absolute and written as it is,
\* and DefaultAuthorizeFunc passes RedirectLocation of its URI.
Redirect(location, cookie) == Response(StatusFound, location, cookie, FALSE, FALSE)

\* Mutant: the callback path is redirected like any other.
LoginRedirectNoLoopGuard(url, redirectErr) ==
    LET signedRelayState == SignedString("HS256", RelayStateClaims(url), Secret)
    IN  IF redirectErr THEN HttpError(StatusInternalServerError)
        ELSE Redirect(RedirectAuthenticationRequest(signedRelayState), NoCookie)

\* Mutant: the verifier's error is swallowed and the request passed on.
LoginRedirectSwallowingError(url, redirectErr) ==
    LET signedRelayState == SignedString("HS256", RelayStateClaims(url), Secret)
    IN  IF redirectErr THEN Handler
        ELSE IF url.Path = AcsPath THEN Panic
        ELSE Redirect(RedirectAuthenticationRequest(signedRelayState), NoCookie)

\* What the middleware does once isAuthorized(r) has returned false and
\* MakeRedirectAuthenticationRequest has answered.
LoginRedirect(url, redirectErr) ==
    LET signedRelayState == SignedString("HS256", RelayStateClaims(url), Secret)
    IN  IF redirectErr THEN HttpError(StatusInternalServerError)
        ELSE IF url.Path = AcsPath THEN Panic
        ELSE Redirect(RedirectAuthenticationRequest(signedRelayState), NoCookie)

\* The possible outcomes of a request: those of DefaultIsAuthorized, and for
\* an unauthorized request those of the verifier's
\* MakeRedirectAuthenticationRequest, which may fail.
RequireAccountMiddleware(url, cookie, header, t) ==
    LET record(isAuthorized, makeRedirect, res) ==
            Handled("RequireAccountMiddleware", url, cookie, header, Absent, NoAssertion, t,
                    isAuthorized.result, isAuthorized.header, makeRedirect, "none", <<>>, res)
    IN  UNION {
          IF isAuthorized.result = "panic" THEN {record(isAuthorized, "not called", Panic)}
          ELSE IF isAuthorized.result = "true" THEN {record(isAuthorized, "not called", Handler)}
          ELSE {record(isAuthorized, IF redirectErr THEN "err" ELSE "ok",
                       LoginRedirect(url, redirectErr)) : redirectErr \in BOOLEAN}
          : isAuthorized \in DefaultIsAuthorized(cookie, header, t)}

(***************************************************************************)
(* DefaultAuthorizeFunc                                                    *)
(***************************************************************************)
\* for _, attr := range assertionAttributes { token.Claims[attr.FriendlyName] = attr.Value }
RECURSIVE AttributeClaims(_, _)
AttributeClaims(claims, attrs) ==
    IF Len(attrs) = 0 THEN claims
    ELSE AttributeClaims(Put(claims, attrs[1].FriendlyName, StringValue(attrs[1].Value)),
                         SubSeq(attrs, 2, Len(attrs)))

\* Mutant: the session lifetime is not added to the clock reading.
SessionClaimsNoLifetime(attrs, t) ==
    Put(AttributeClaims({}, attrs), nExp, Int64Value(t))

\* Mutant: exp is written before the attributes, which may then replace it.
SessionClaimsExpFirst(attrs, t) ==
    AttributeClaims(Put({}, nExp, Int64Value(t + cookieMaxAge)), attrs)

\* ... token.Claims["exp"] = timeNow().Add(cookieMaxAge).Unix()
SessionClaims(attrs, t) ==
    Put(AttributeClaims({}, attrs), nExp, Int64Value(t + cookieMaxAge))

\* http.SetCookie(w, &http.Cookie{...})
SessionCookie(signedToken) ==
    [set |-> TRUE, name |-> cookieName, value |-> signedToken, maxAge |-> cookieMaxAge,
     httpOnly |-> FALSE, path |-> "/"]

\* Mutant: a RelayState that fails verification falls back to the site root.
DefaultAuthorizeFuncDefaultRedirect(form, attrs, t) ==
    LET relayState == FormGet(form)
        signedToken == SignedString("HS256", SessionClaims(attrs, t), Secret)
        ok == relayState # EmptyString /\ ParseValid(relayState, Secret, t)
    IN  IF ok /\ ~(Has(relayState.claims, nUri) /\ Get(relayState.claims, nUri).type = "string")
        THEN Panic
        ELSE Redirect([to |-> RedirectLocation(IF ok THEN Get(relayState.claims, nUri).s
                                               ELSE "/"),
                       relayState |-> EmptyString],
                      SessionCookie(signedToken))

DefaultAuthorizeFunc(form, attrs, t) ==
    LET relayState == FormGet(form)
        signedToken == SignedString("HS256", SessionClaims(attrs, t), Secret)
    IN  IF relayState # EmptyString /\ ~ParseValid(relayState, Secret, t)
        THEN HttpError(StatusForbidden)
        ELSE IF relayState # EmptyString
                /\ ~(Has(relayState.claims, nUri) /\ Get(relayState.claims, nUri).type = "string")
        THEN Panic      \* relayState.Claims["uri"].(string) on a missing or non-string claim
        ELSE Redirect([to |-> RedirectLocation(IF relayState = EmptyString THEN "/"
                                               ELSE Get(relayState.claims, nUri).s),
                       relayState |-> EmptyString],
                      SessionCookie(signedToken))

(***************************************************************************)
(* ServeHTTP                                                               *)
(***************************************************************************)
\* What a caller-supplied AuthorizeFunc writes is its own business.
CustomAuthorizeFunc == Response(0, NoLocation, NoCookie, FALSE, FALSE)

\* Mutant: the verifier's error is not checked.
ServeHTTPIgnoringError(path, form, assertion, t, authorizeFunc) ==
    LET record(authorize, attrs, res) ==
            Handled("ServeHTTP", URL(path, ""), Absent, PlainHeader, form, assertion, t,
                    "n/a", PlainHeader, "not called", authorize, attrs, res)
    IN  IF path = MetadataPath
        THEN record("none", <<>>, Response(StatusOK, NoLocation, NoCookie, FALSE, FALSE))
        ELSE IF path = AcsPath
        THEN IF authorizeFunc = "nil"
             THEN record("default", assertion.attributes,
                         DefaultAuthorizeFunc(form, assertion.attributes, t))
             ELSE record("custom", assertion.attributes, CustomAuthorizeFunc)
        ELSE record("none", <<>>, HttpError(StatusNotFound))

ServeHTTP(path, form, assertion, t, authorizeFunc) ==
    LET record(authorize, attrs, res) ==
            Handled("ServeHTTP", URL(path, ""), Absent, PlainHeader, form, assertion, t,
                    "n/a", PlainHeader, "not called", authorize, attrs, res)
    IN  IF path = MetadataPath
        THEN record("none", <<>>, Response(StatusOK, NoLocation, NoCookie, FALSE, FALSE))
        ELSE IF path = AcsPath
        THEN IF ~assertion.valid
             THEN record("none", <<>>, HttpError(StatusForbidden))
             ELSE IF authorizeFunc = "nil"
             THEN record("default", assertion.attributes,
                         DefaultAuthorizeFunc(form, assertion.attributes, t))
             ELSE record("custom", assertion.attributes, CustomAuthorizeFunc)
        ELSE record("none", <<>>, HttpError(StatusNotFound))

(***************************************************************************)
(* RequireAttribute                                                        *)
(***************************************************************************)
\* Mutant: the header's presence is enough, whatever its values.
RequireAttributeAnyValue(name, value, header) ==
    IF \E e \in header : e.name = CanonicalHeaderKey(SamlHeaderName(name))
    THEN Handler
    ELSE HttpError(StatusForbidden)

RequireAttribute(name, value, header) ==
    IF \E e \in header :
          /\ e.name = CanonicalHeaderKey(SamlHeaderName(name))
          /\ \E i \in 1..Len(e.values) : e.values[i] = value
    THEN Handler
    ELSE HttpError(StatusForbidden)

\* The policies routes are guarded with.
Policies == {Attr(nUid, "a"), Attr(nUID, "b")}
\* Headers of requests that reach a RequireAttribute guard with no
\* RequireAccountMiddleware in front of it.
UnguardedHeaders ==
    { PlainHeader,
      PlainHeader \cup {HeaderEntry(SamlHeaderName(nUID), <<"b", "a">>)} }

(***************************************************************************)
(* Actions.                                                                *)
(***************************************************************************)
Init ==
    /\ now = 0
    /\ AuthorizeFunc \in {"nil", "custom"}
    /\ cookieJar = Absent
    /\ relayStates = {}
    /\ last = NoRequest

\* Time passes.
Tick ==
    /\ \E t \in Times : t > now /\ now' = t
    /\ UNCHANGED <<AuthorizeFunc, cookieJar, relayStates, last>>

\* A request to a handler wrapped by RequireAccountMiddleware.
GuardedRequest ==
    \E url \in GuardedURLs, header \in InboundHeaders,
       cookie \in {Absent} \cup {Present(c) : c \in ClientTokens} :
      \E h \in RequireAccountMiddleware(url, cookie, header, now) :
            /\ last' = h
            /\ relayStates' = IF h.res.status = StatusFound
                              THEN relayStates \cup {h.res.location.relayState}
                              ELSE relayStates
            /\ UNCHANGED <<now, AuthorizeFunc, cookieJar>>

\* A request to the middleware's own endpoints.
EndpointRequest ==
    \E path \in ServedPaths :
      \E form \in IF path = AcsPath
                  THEN {Absent, Present(EmptyString)} \cup {Present(c) : c \in ClientTokens}
                  ELSE {Absent},
         assertion \in IF path = AcsPath THEN Assertions ELSE {NoAssertion} :
        LET h == ServeHTTP(path, form, assertion, now, AuthorizeFunc)
        IN  /\ last' = h
            /\ cookieJar' = IF h.res.cookie.set
                            THEN Present(h.res.cookie.value)
                            ELSE cookieJar
            /\ UNCHANGED <<now, AuthorizeFunc, relayStates>>

\* The handler wrapped by RequireAccountMiddleware is a RequireAttribute
\* guard: it runs on the request the middleware passed on.
GuardedAttributeRequest ==
    /\ last.op = "RequireAccountMiddleware"
    /\ last.res.handler
    /\ \E policy \in Policies :
         last' = [last EXCEPT !.op = "RequireAttribute", !.policy = policy,
                              !.res = RequireAttribute(policy.FriendlyName, policy.Value,
                                                       last.headerOut)]
    /\ UNCHANGED <<now, AuthorizeFunc, cookieJar, relayStates>>

\* A request to a RequireAttribute guard that nothing precedes.
UnguardedAttributeRequest ==
    /\ \E policy \in Policies, header \in UnguardedHeaders :
         last' = [Handled("RequireAttribute", URL("/a", ""), Absent, header, Absent,
                          NoAssertion, now, "n/a", header, "not called", "none", <<>>,
                          RequireAttribute(policy.FriendlyName, policy.Value, header))
                  EXCEPT !.policy = policy]
    /\ UNCHANGED <<now, AuthorizeFunc, cookieJar, relayStates>>

Next ==
    \/ Tick
    \/ GuardedRequest
    \/ EndpointRequest
    \/ GuardedAttributeRequest
    \/ UnguardedAttributeRequest

Spec == Init /\ [][Next]_vars

(***************************************************************************)
(* Vocabulary of the properties.                                           *)
(***************************************************************************)
\* The request handled last went through RequireAccountMiddleware.
ThroughAccountMiddleware == last.op = "RequireAccountMiddleware"
\* The request handled last was a callback handed to DefaultAuthorizeFunc.
ThroughDefaultAuthorize == last.op = "ServeHTTP" /\ last.authorize = "default"

\* Header names are compared as HTTP compares them, without regard to case.
LowerCase(s) == [i \in 1..Len(s) |-> ToLower(s[i])]
SameHeaderName(a, b) == LowerCase(a) = LowerCase(b)
\* The headers of the trusted namespace.
SamlHeaders(header) == {e \in header : HasPrefix(LowerCase(e.name), LowerCase(XSaml))}
StringClaims(tok) == {e \in tok.claims : e.value.type = "string"}

(***************************************************************************)
(* C1.  DefaultIsAuthorized returns true, and RequireAccountMiddleware     *)
(* passes the request to the wrapped handler, only for a cookie holding a  *)
(* session token that DefaultAuthorizeFunc issued: for a client that sends *)
(* only token strings it received or could write without the secret, the   *)
(* accepted cookie is one DefaultAuthorizeFunc set; a relay-state token    *)
(* taken from a redirect is not accepted.                                  *)
(***************************************************************************)
C1_OnlySessionTokensAuthorize ==
    (/\ ThroughAccountMiddleware
     /\ last.cookie.value \notin SecretMadeTokens
     /\ (last.authorized = "true" \/ last.res.handler))
    => /\ last.cookie.present
       /\ last.cookie.value \in sessions
       /\ last.cookie.value \notin relayStates

(***************************************************************************)
(* C2.  A request that reaches DefaultIsAuthorized with a header whose     *)
(* name starts with X-Saml always panics: no handler, no redirect,         *)
(* whatever its cookie.                                                    *)
(***************************************************************************)
C2_TrustedHeaderAlwaysAborts ==
    (ThroughAccountMiddleware /\ HasSamlHeader(last.header))
    => /\ last.res.panic
       /\ ~last.res.handler
       /\ last.res.status # StatusFound

(***************************************************************************)
(* C3.  When DefaultIsAuthorized returns true the X-Saml-* headers of the  *)
(* request are exactly one header X-Saml-<name>: <value> per string claim  *)
(* of the verified cookie token (names compared as header names); when it  *)
(* returns false the request's headers are as they came in.                *)
(***************************************************************************)
C3_HeadersAreExactlyTheStringClaims ==
    ThroughAccountMiddleware =>
      /\ last.authorized = "true" =>
           /\ \A c \in StringClaims(last.cookie.value) :
                \E e \in SamlHeaders(last.headerOut) :
                   /\ SameHeaderName(e.name, SamlHeaderName(c.name))
                   /\ e.values = <<c.value.s>>
           /\ \A e \in SamlHeaders(last.headerOut) :
                \E c \in StringClaims(last.cookie.value) :
                   /\ SameHeaderName(e.name, SamlHeaderName(c.name))
                   /\ e.values = <<c.value.s>>
           /\ last.headerOut \ SamlHeaders(last.headerOut) = last.header
      /\ last.authorized = "false" => last.headerOut = last.header

SignedWithAnotherKey(tok) ==
    /\ tok.segments = 3
    /\ tok.sig.key # Secret
    /\ tok = SignedString(tok.alg, tok.claims, tok.sig.key)

C5_OtherSecretFailsVerification ==
    /\ \A tok \in ClientTokens, alg \in HMACMethods :
          LET other == SignedString(alg, tok.claims, OtherKey)
          IN  /\ ~ParseValid(other, Secret, now)
              /\ \A r \in DefaultIsAuthorized(Present(other), PlainHeader, now) :
                    r.result = "false"
              /\ DefaultAuthorizeFunc(Present(other), <<>>, now).status = StatusForbidden
    /\ (ThroughAccountMiddleware /\ last.cookie.present
            /\ SignedWithAnotherKey(last.cookie.value))
       => last.authorized = "false" /\ ~last.res.handler
    /\ (ThroughDefaultAuthorize /\ last.form.present
            /\ SignedWithAnotherKey(last.form.value))
       => /\ last.res.status = StatusForbidden
          /\ ~last.res.cookie.set

C5_Witness ==
    /\ ThroughDefaultAuthorize
    /\ last.form.present
    /\ SignedWithAnotherKey(last.form.value)
    /\ last.res.status = StatusForbidden

(***************************************************************************)
(* C6.  Only the algorithm used for issuance is accepted: a cookie or      *)
(* RelayState token whose header names another algorithm than HS256, or    *)
(* none, is rejected even when its signature is right for the algorithm    *)
(* it names and the configured secret.                                     *)
(***************************************************************************)
C6_OnlyIssuanceAlgorithmAccepted ==
    /\ (ThroughAccountMiddleware /\ last.cookie.present
            /\ last.cookie.value.alg # "HS256")
       => last.authorized = "false" /\ ~last.res.handler
    /\ (ThroughDefaultAuthorize /\ last.form.present
            /\ last.form.value # EmptyString /\ last.form.value.alg # "HS256")
       => /\ last.res.status = StatusForbidden
          /\ ~last.res.cookie.set

(***************************************************************************)
(* C7.  A request without session cookie for a URI u whose path is not     *)
(* the callback path, when the verifier builds the redirect, gets a 302    *)
(* to the URL the verifier returned for a relay-state token that verifies  *)
(* under the secret and whose uri claim is u, path and query; the wrapped  *)
(* handler is not invoked.                                                 *)
(***************************************************************************)
C7_RedirectCarriesRequestURI ==
    (/\ ThroughAccountMiddleware
     /\ ~last.cookie.present
     /\ last.makeRedirect = "ok"
     /\ last.url.Path # AcsPath)
    => /\ last.res.status = StatusFound
       /\ ~last.res.handler
       /\ ~last.res.panic
       /\ last.res.location = RedirectAuthenticationRequest(last.res.location.relayState)
       /\ ParseValid(last.res.location.relayState, Secret, last.now)
       /\ Has(last.res.location.relayState.claims, nUri)
       /\ Get(last.res.location.relayState.claims, nUri) =
             StringValue(IF last.url.RawQuery = "" THEN last.url.Path
                         ELSE last.url.Path \o "?" \o last.url.RawQuery)
       /\ last.url = URL("/a", "x=1")
             => Get(last.res.location.relayState.claims, nUri).s = "/a?x=1"

C7_Witness ==
    /\ ThroughAccountMiddleware
    /\ ~last.cookie.present
    /\ last.url = URL("/a", "x=1")
    /\ last.res.status = StatusFound
    /\ Get(last.res.location.relayState.claims, nUri).s = "/a?x=1"

(***************************************************************************)
(* C8.  As stated: a callback with a valid assertion whose RelayState      *)
(* field is present and fails verification is answered 403, with no        *)
(* cookie and no redirect.                                                 *)
(***************************************************************************)
C8_PresentInvalidRelayStateForbidden ==
    (/\ ThroughDefaultAuthorize
     /\ last.assertion.valid
     /\ last.form.present
     /\ ~ParseValid(last.form.value, Secret, last.now))
    => /\ last.res.status = StatusForbidden
       /\ ~last.res.cookie.set
       /\ last.res.location = NoLocation

(***************************************************************************)
(* C8, amended.  A callback with a valid assertion whose RelayState field  *)
(* is non-empty and fails verification (bad signature, expired) is         *)
(* answered 403, with no cookie and no redirect; an empty RelayState field *)
(* is treated as an absent one: the cookie is set and the redirect goes    *)
(* to "/".                                                                 *)
(***************************************************************************)
C8_NonEmptyInvalidRelayStateForbidden ==
    /\ (/\ ThroughDefaultAuthorize
        /\ last.assertion.valid
        /\ last.form.present
        /\ last.form.value # EmptyString
        /\ ~ParseValid(last.form.value, Secret, last.now))
       => /\ last.res.status = StatusForbidden
          /\ ~last.res.cookie.set
          /\ last.res.location = NoLocation
          /\ ~last.res.panic
    /\ (/\ ThroughDefaultAuthorize
        /\ last.assertion.valid
        /\ last.form = Present(EmptyString))
       => /\ last.res.status = StatusFound
          /\ last.res.cookie.set
          /\ last.res.location.to = "/"

\* A callback whose RelayState is an expired token with a good signature.
C8_Witness ==
    /\ ThroughDefaultAuthorize
    /\ last.assertion.valid
    /\ last.form.present
    /\ MethodVerify(last.form.value, Secret)
    /\ Expired(last.form.value, last.now)
    /\ last.res.status = StatusForbidden

(***************************************************************************)
(* C9.  When the verifier reports a failure for a callback the answer is   *)
(* 403 with no cookie and no redirect and no authorize function is called; *)
(* an authorize function (caller-supplied or default) is called only for   *)
(* a valid assertion, with the attributes the verifier returned for that   *)
(* request.                                                                *)
(***************************************************************************)
C9_VerifierFailureIsForbidden ==
    last.op = "ServeHTTP" =>
      /\ (last.url.Path = AcsPath /\ ~last.assertion.valid)
         => /\ last.res.status = StatusForbidden
            /\ ~last.res.cookie.set
            /\ last.res.location = NoLocation
            /\ last.authorize = "none"
      /\ last.authorize # "none"
         => /\ last.url.Path = AcsPath
            /\ last.assertion.valid
            /\ last.attributes = last.assertion.attributes
            /\ last.authorize = (IF AuthorizeFunc = "nil" THEN "default" ELSE "custom")

C9_Witness ==
    /\ last.op = "ServeHTTP"
    /\ last.url.Path = AcsPath
    /\ ~last.assertion.valid
    /\ last.form.present
    /\ ParseValid(last.form.value, Secret, last.now)
    /\ last.res.status = StatusForbidden

(***************************************************************************)
(* C10.  The RequireAttribute(name, value) guard passes the request on     *)
(* exactly when the request's X-Saml-<name> header (a header name, so      *)
(* compared without regard to case) has a value equal to value, and        *)
(* answers 403 otherwise.  Behind RequireAccountMiddleware the request is  *)
(* passed on only when the cookie token that was verified has a string     *)
(* claim whose header name is that of name and whose value is value; the   *)
(* inbound request carried no X-Saml header.                               *)
(***************************************************************************)
HeaderHasValue(header, name, value) ==
    \E e \in header :
       /\ SameHeaderName(e.name, SamlHeaderName(name))
       /\ \E i \in DOMAIN e.values : e.values[i] = value

C10_AttributeGuard ==
    last.op = "RequireAttribute" =>
      /\ last.res.handler <=>
            HeaderHasValue(last.headerOut, last.policy.FriendlyName, last.policy.Value)
      /\ ~last.res.handler => last.res.status = StatusForbidden
      /\ (last.authorized = "true" /\ last.res.handler)
         => /\ ParseValid(last.cookie.value, Secret, last.now)
            /\ \E c \in StringClaims(last.cookie.value) :
                  /\ SameHeaderName(SamlHeaderName(c.name),
                                    SamlHeaderName(last.policy.FriendlyName))
                  /\ c.value.s = last.policy.Value
            /\ SamlHeaders(last.header) = {}

C10_Witness ==
    /\ last.op = "RequireAttribute"
    /\ last.authorized = "true"
    /\ last.cookie.value \in sessions
    /\ last.res.handler

(***************************************************************************)
(* C11.  As stated: every request through RequireAccountMiddleware whose   *)
(* path is the callback path ends in a panic, and never in a 302, an       *)
(* ordinary error response or a pass-through to the wrapped handler.       *)
(***************************************************************************)
C11_CallbackPathAlwaysPanics ==
    (ThroughAccountMiddleware /\ last.url.Path = AcsPath)
    => /\ last.res.panic
       /\ last.res.status = 0
       /\ ~last.res.handler

(***************************************************************************)
(* C11, amended.  No request through RequireAccountMiddleware whose path   *)
(* is the callback path is answered with a redirect.  The loop guard is    *)
(* the last step of the login redirect: the request panics when it is      *)
(* unauthorized and the verifier has built the redirect; when the verifier *)
(* fails the answer is 500; an authorized request is passed to the wrapped *)
(* handler.                                                                *)
(***************************************************************************)
C11_CallbackPathNeverRedirected ==
    (ThroughAccountMiddleware /\ last.url.Path = AcsPath)
    => /\ last.res.status # StatusFound
       /\ last.res.location = NoLocation
       /\ (last.authorized = "false" /\ last.makeRedirect = "ok")
          => (last.res.panic /\ last.res.status = 0 /\ ~last.res.handler)
       /\ (last.authorized = "false" /\ last.makeRedirect = "err")
          => (last.res = HttpError(StatusInternalServerError))
       /\ last.authorized = "true" => last.res = Handler

C11_Witness ==
    /\ ThroughAccountMiddleware
    /\ last.url.Path = AcsPath
    /\ last.authorized = "false"
    /\ last.makeRedirect = "ok"
    /\ last.res.panic

(***************************************************************************)
(* C12.  A callback that DefaultAuthorizeFunc accepts sets the cookie      *)
(* named token, with Max-Age = cookieMaxAge and path "/", to a token       *)
(* signed HS256 with the secret whose claims are one claim per attribute   *)
(* the verifier returned, friendly name -> value (an attribute named exp   *)
(* aside, which the expiration replaces), and exp = now + cookieMaxAge,    *)
(* the instant at which the cookie's Max-Age runs out.                     *)
(***************************************************************************)
C12_SessionTokenHoldsEveryAttribute ==
    (ThroughDefaultAuthorize /\ last.res.status = StatusFound)
    => LET cookie == last.res.cookie
           tok == cookie.value
       IN  /\ cookie.set
           /\ cookie.name = "token"
           /\ cookie.maxAge = cookieMaxAge
           /\ cookie.path = "/"
           /\ tok.alg = "HS256"
           /\ MethodVerify(tok, Secret)
           /\ \A i \in DOMAIN last.attributes :
                 last.attributes[i].FriendlyName # nExp
                 => Entry(last.attributes[i].FriendlyName,
                          StringValue(last.attributes[i].Value)) \in tok.claims
           /\ \A e \in tok.claims :
                 \/ e.name = nExp
                 \/ \E i \in DOMAIN last.attributes :
                       /\ e.name = last.attributes[i].FriendlyName
                       /\ e.value = StringValue(last.attributes[i].Value)
           /\ Get(tok.claims, nExp) = Float64Value(last.now + cookieMaxAge)
           /\ Get(tok.claims, nExp).n = last.now + cookie.maxAge

(***************************************************************************)
(* C13.  A relay-state token is consumed once: when a callback has         *)
(* accepted a relay-state token (cookie set, redirect issued), the next    *)
(* callback that carries the same token as RelayState is not accepted.     *)
(***************************************************************************)
\* The callback h was handed to DefaultAuthorizeFunc with a relay-state token
\* the middleware issued, and accepted it.
AcceptedRelayState(h) ==
    /\ h.op = "ServeHTTP"
    /\ h.authorize = "default"
    /\ h.form.present
    /\ h.form.value \in relayStates
    /\ h.res.status = StatusFound
    /\ h.res.cookie.set

C13_RelayStateConsumedOnce ==
    [][(/\ AcceptedRelayState(last)
        /\ last' # last                  \* a request is handled in this step
        /\ last'.op = "ServeHTTP"
        /\ last'.authorize = "default"
        /\ last'.form = last.form)
       => ~(last'.res.status = StatusFound \/ last'.res.cookie.set)]_vars

(***************************************************************************)
(* C14.  As stated: a callback with a valid assertion and no RelayState    *)
(* sets the cookie and is redirected to "/"; with a RelayState that        *)
(* verifies and carries a uri claim it is redirected to exactly that uri   *)
(* claim.                                                                  *)
(***************************************************************************)
\* The callback handled last carried as RelayState a token that verifies and
\* has a string uri claim.
VerifiedRelayState ==
    /\ ThroughDefaultAuthorize
    /\ last.assertion.valid
    /\ last.form.present
    /\ last.form.value # EmptyString
    /\ ParseValid(last.form.value, Secret, last.now)
    /\ Has(last.form.value.claims, nUri)
    /\ Get(last.form.value.claims, nUri).type = "string"
RelayStateURI == Get(last.form.value.claims, nUri).s

IsCleanPath(path) ==
    \A i \in DOMAIN SplitPath(path) : SplitPath(path)[i] \notin {"", ".", ".."}

RelayStateFor(url) == SignedString("HS256", RelayStateClaims(url), Secret)
\* The callback handled last carried, with a valid assertion, the
\* relay-state token the middleware had issued for url.
CallbackFor(url) ==
    /\ ThroughDefaultAuthorize
    /\ last.assertion.valid
    /\ RelayStateFor(url) \in relayStates
    /\ last.form = Present(RelayStateFor(url))
\* The request handled last went through RequireAccountMiddleware with a
\* session cookie that has not reached its exp.
SessionRequest ==
    /\ ThroughAccountMiddleware
    /\ last.cookie.present
    /\ last.cookie.value \in sessions
    /\ last.now < Get(last.cookie.value.claims, nExp).n
    /\ SamlHeaders(last.header) = {}
PassedThrough ==
    /\ last.authorized = "true"
    /\ last.res = Handler
    /\ last.makeRedirect = "not called"

NamedElements(elems) == SelectSeq(elems, LAMBDA e : e \notin {"", "."})

C16_RedirectFailureIsServerError ==
    ThroughAccountMiddleware =>
      /\ last.makeRedirect = "err"
         => /\ last.authorized = "false"
            /\ last.res.status = StatusInternalServerError
            /\ last.res.location = NoLocation
            /\ ~last.res.cookie.set
            /\ ~last.res.handler
            /\ ~last.res.panic
      /\ last.makeRedirect # "not called" <=> last.authorized = "false"
      /\ last.res.status = StatusInternalServerError => last.makeRedirect = "err"

C16_Witness ==
    /\ ThroughAccountMiddleware
    /\ last.authorized = "false"
    /\ last.makeRedirect = "err"
    /\ last.url.Path # AcsPath
    /\ last.res.status = StatusInternalServerError

(***************************************************************************)
(* C17.  Attribute fidelity from login to guard: for every attribute       *)
(* (n, v) of the list the verifier returned at the login that issued a     *)
(* session cookie, a request carrying that cookie before its expiry        *)
(* passes the RequireAttribute(n, v) guard behind RequireAccountMiddleware *)
(* (answering 403 only when no attribute of the list has name n and value  *)
(* v), also when the list repeats a friendly name or holds names that      *)
(* differ only in letter case.                                             *)
(***************************************************************************)
\* The session token DefaultAuthorizeFunc issues for attrs at time t.
SessionTokenFor(attrs, t) == SignedString("HS256", SessionClaims(attrs, t), Secret)
\* tok is the session token of a login at which the verifier returned attrs.
IssuedFor(tok, attrs) ==
    /\ Has(tok.claims, nExp)
    /\ tok = SessionTokenFor(attrs, Get(tok.claims, nExp).n - cookieMaxAge)

C17_AttributesReachTheGuard ==
    (/\ last.op = "RequireAttribute"
     /\ last.authorized = "true"
     /\ last.cookie.value \in sessions)
    => \A attrs \in AttributeLists :
          (/\ IssuedFor(last.cookie.value, attrs)
           /\ \E i \in DOMAIN attrs : attrs[i] = last.policy)
          => last.res.handler

(***************************************************************************)
(* C18.  A callback with a verified assertion handled by                   *)
(* DefaultAuthorizeFunc ends either in 403 with no cookie or in a 302 with *)
(* the session cookie, and never in a panic, whatever the RelayState       *)
(* field holds, a token signed with the secret that has no string uri      *)
(* claim included; the tokens are those a client received from the         *)
(* middleware or could write without the secret.                           *)
(***************************************************************************)
C18_CallbackNeverPanics ==
    (/\ ThroughDefaultAuthorize
     /\ last.assertion.valid
     /\ last.form.value \notin SecretMadeTokens)
    => /\ ~last.res.panic
       /\ \/ (last.res.status = StatusForbidden /\ ~last.res.cookie.set)
          \/ (last.res.status = StatusFound /\ last.res.cookie.set)

(***************************************************************************)
(* C19.  Whatever attributes the verifier returned, one named exp          *)
(* included, the session token DefaultAuthorizeFunc issues has exactly one *)
(* exp claim, numeric and equal to issuance time + cookieMaxAge: the token *)
(* is valid up to that instant and expired after it.                       *)
(***************************************************************************)
C19_AttributesCannotChangeExpiration ==
    (ThroughDefaultAuthorize /\ last.res.cookie.set)
    => LET tok == last.res.cookie.value
           exp == last.now + cookieMaxAge
       IN  /\ {e \in tok.claims : e.name = nExp} = {Entry(nExp, Float64Value(exp))}
           /\ ParseValid(tok, Secret, exp)
           /\ ~ParseValid(tok, Secret, exp + 1)
           /\ \A t \in Times : ParseValid(tok, Secret, t) <=> t <= exp

\* A verified assertion with an attribute named exp was accepted.
C19_Witness ==
    /\ ThroughDefaultAuthorize
    /\ last.res.cookie.set
    /\ \E i \in DOMAIN last.attributes :
          last.attributes[i] = Attr(nExp, "never")
    /\ Get(last.res.cookie.value.claims, nExp) = Float64Value(last.now + cookieMaxAge)

(***************************************************************************)
(* C20.  The outcome of a request (status, cookie, headers added, handler  *)
(* invoked) is a function of that request, the secret and the clock        *)
(* reading alone: whatever requests were handled before it, a request      *)
(* through RequireAccountMiddleware has the one outcome its URL, cookie    *)
(* and headers, the clock and the verifier's answer determine, and a       *)
(* request through ServeHTTP the one its path, form and assertion and the  *)
(* clock determine.                                                        *)
(***************************************************************************)
C20_OutcomeIsAFunctionOfTheRequest ==
    /\ ThroughAccountMiddleware
       => \A h \in RequireAccountMiddleware(last.url, last.cookie, last.header, last.now) :
             h.makeRedirect = last.makeRedirect
             => /\ h.res = last.res
                /\ h.authorized = last.authorized
                /\ h.headerOut = last.headerOut
    /\ last.op = "ServeHTTP"
       => last = ServeHTTP(last.url.Path, last.form, last.assertion, last.now, AuthorizeFunc)
====
